---- MODULE Spec2Model ----
(***************************************************************************)
(* Model of the setup-buildx action in its two variants:                   *)
(*   "prov"   - the provisioning variant (getBuildkitdAddr, completion     *)
(*              report), with its state-helper;                            *)
(*   "sticky" - the sticky-disk variant (src/src/main.ts), with its        *)
(*              state-helper.                                              *)
(* A job is one run of main (initialization) followed by one run of post   *)
(* (finalization) in a fresh process; the two share only the saved state.  *)
(* JavaScript strings are sequences of one-character strings.              *)
(***************************************************************************)
EXTENDS Integers, Sequences, FiniteSets, TLC

VARIABLES
    variant,   \* which variant of the action runs: "prov" or "sticky"
    pc,        \* position of the running phase
    saved,     \* the runner's state file: what core.saveState has written
    exports,   \* the constants state-helper exported when this process loaded it
    lastSet,   \* history: the last argument passed to each setter
    nsets,     \* history: number of setter calls (state round-trip runs)
    rc,        \* frame of retryCommand
    gba,       \* frame of getBuildkitdAddr, the clock and the backend's counters
    m,         \* locals of main
    sd,        \* sticky-disk environment: daemon, mount, what initialization did
    trace,     \* external commands and requests issued by the running phase
    err        \* error the running phase ended with ("none" while none)

vars == <<variant, pc, saved, exports, lastSet, nsets, rc, gba, m, sd, trace, err>>

----------------------------------------------------------------------------
(* Strings *)

S_empty == <<>>
S_true == <<"t", "r", "u", "e">>
S_false == <<"f", "a", "l", "s", "e">>
S_TRUE == <<"T", "R", "U", "E">>
S_x == <<"x">>
S_remote == <<"r", "e", "m", "o", "t", "e">>
S_docker == <<"d", "o", "c", "k", "e", "r">>
S_dockerContainer ==
    <<"d", "o", "c", "k", "e", "r", "-", "c", "o", "n", "t", "a", "i", "n", "e", "r">>
S_notFound ==
    <<"R", "e", "s", "o", "u", "r", "c", "e", " ", "n", "o", "t", " ",
      "f", "o", "u", "n", "d">>

\* process.env[...] of a variable that is not set
Undefined == <<"undefined">>

\* String.prototype.includes
Includes(s, pat) ==
    \E i \in 0..(Len(s) - Len(pat)) : SubSeq(s, i + 1, i + Len(pat)) = pat

\* truthiness of a string or of undefined: `!!v`, `if (v)`, `v || ...`
Truthy(v) == v # Undefined /\ Len(v) > 0

\* `v || ''`
OrEmpty(v) == IF Truthy(v) THEN v ELSE S_empty

LowerChar(c) ==
    CASE c = "T" -> "t"
      [] c = "R" -> "r"
      [] c = "U" -> "u"
      [] c = "E" -> "e"
      [] OTHER -> c

\* /true/i.test(s)
TestTrueI(s) == Includes([i \in DOMAIN s |-> LowerChar(s[i])], S_true)

----------------------------------------------------------------------------
(* state-helper *)

ProvKeys ==
    {"isDebug", "standalone", "builderName", "builderDriver", "containerName",
     "certsDir", "cleanup", "isStickyDisksEnabled", "blacksmithBuildTaskId",
     "blacksmithClientKey", "blacksmithClientCaCertificate",
     "blacksmithRootCaCertificate"}

StickyKeys ==
    {"isDebug", "standalone", "builderName", "builderDriver", "containerName",
     "certsDir", "cleanup", "isStickyDisksEnabled", "blacksmithBuilderId"}

StateKeys == ProvKeys \cup StickyKeys

KeysOf(v) == IF v = "prov" THEN ProvKeys ELSE StickyKeys

\* the state file of a job that has saved nothing
NoState == [k \in StateKeys |-> Undefined]

\* core.saveState(name, value) with a string value
saveStateStr(st, name, value) == [st EXCEPT ![name] = value]

\* core.saveState(name, value) with a boolean value: the value is written as
\* its JSON text
saveStateBool(st, name, value) ==
    [st EXCEPT ![name] = IF value THEN S_true ELSE S_false]

setDebug(st, debug) == saveStateStr(st, "isDebug", debug)
setStandalone(st, standalone) == saveStateBool(st, "standalone", standalone)
setBuilderName(st, builderName) == saveStateStr(st, "builderName", builderName)
setBuilderDriver(st, builderDriver) == saveStateStr(st, "builderDriver", builderDriver)
setContainerName(st, containerName) == saveStateStr(st, "containerName", containerName)
setCertsDir(st, certsDir) == saveStateStr(st, "certsDir", certsDir)
setCleanup(st, cleanup) == saveStateBool(st, "cleanup", cleanup)
setStickyDisksEnabled(st, v) == saveStateStr(st, "isStickyDisksEnabled", v)
setBlacksmithBuildTaskId(st, v) == saveStateStr(st, "blacksmithBuildTaskId", v)
setBlacksmithClientKey(st, v) == saveStateStr(st, "blacksmithClientKey", v)
setBlacksmithClientCaCertificate(st, v) ==
    saveStateStr(st, "blacksmithClientCaCertificate", v)
setBlacksmithRootCaCertificate(st, v) ==
    saveStateStr(st, "blacksmithRootCaCertificate", v)
setBlacksmithBuilderId(st, v) == saveStateStr(st, "blacksmithBuilderId", v)

\* `!!process.env['STATE_isDebug']`, `!!process.env['STATE_isStickyDisksEnabled']`
ReadFlag(v) == Truthy(v)

\* `/true/i.test(process.env['STATE_...'] || '')`
ReadBool(v) == TestTrueI(OrEmpty(v))

\* `process.env['STATE_...'] || ''`
ReadString(v) == OrEmpty(v)

\* The exported constants, evaluated once when the module is loaded, from the
\* STATE_* variables of the process environment.
LoadStateHelper(v, env) ==
    [k \in KeysOf(v) |->
        CASE k \in {"isDebug", "isStickyDisksEnabled"} -> ReadFlag(env[k])
          [] k \in {"standalone", "cleanup"} -> ReadBool(env[k])
          [] OTHER -> ReadString(env[k])]

----------------------------------------------------------------------------
(* retryCommand *)

MaxRetryAttempts == 10

\* largest sleepTime (seconds) retryCommand is run with
MaxSleepTime == 2

\* what one call of `command` can do: reject, or resolve to a string
CommandOutcomes ==
    {[threw |-> TRUE, value |-> S_empty]} \cup
    {[threw |-> FALSE, value |-> v] :
        v \in {S_empty, S_notFound, S_x \o S_notFound \o S_x, S_true, S_false}}

RcInit(sleepTime) ==
    [sleepTime |-> sleepTime, retryAttempts |-> 0, invocations |-> 0,
     sleeps |-> 0, sleptMs |-> 0, allFailed |-> TRUE, result |-> S_empty,
     last |-> [threw |-> FALSE, value |-> S_empty]]

\* the frame while retryCommand is not running
RcIdle == RcInit(0)

RetryExceededGe(retryAttempts) == retryAttempts >= MaxRetryAttempts

\* `if (retryAttempts > 10)`
RetryExceeded(retryAttempts) == retryAttempts > MaxRetryAttempts

ResultAcceptedNoSentinel(result) == Truthy(result)

\* `if (result && !result.includes('Resource not found'))`
ResultAccepted(result) == Truthy(result) /\ ~Includes(result, S_notFound)

\* top of the loop: give up once the counter has passed the limit
RetryCheck ==
    /\ pc = "rc_check"
    /\ IF RetryExceeded(rc.retryAttempts)
         THEN /\ pc' = "rc_thrown"
              /\ err' = "MaxRetriesExceeded"
         ELSE /\ pc' = "rc_call"
              /\ err' = err
    /\ UNCHANGED <<variant, saved, exports, lastSet, nsets, rc, gba, m, sd, trace>>

\* `await command()` inside the try: return an accepted result, otherwise
\* (rejected, empty, or holding the sentinel) go on to the sleep
RetryCall ==
    /\ pc = "rc_call"
    /\ \E out \in CommandOutcomes :
         IF ~out.threw /\ ResultAccepted(out.value)
           THEN /\ rc' = [rc EXCEPT !.invocations = @ + 1, !.result = out.value,
                                    !.allFailed = FALSE, !.last = out]
                /\ pc' = "rc_returned"
           ELSE /\ rc' = [rc EXCEPT !.invocations = @ + 1, !.last = out]
                /\ pc' = "rc_sleep"
    /\ UNCHANGED <<variant, saved, exports, lastSet, nsets, gba, m, sd, trace, err>>

\* `await new Promise(resolve => setTimeout(resolve, sleepTime * 1000)); retryAttempts++`
RetrySleep ==
    /\ pc = "rc_sleep"
    /\ rc' = [rc EXCEPT !.sleeps = @ + 1, !.sleptMs = @ + rc.sleepTime * 1000,
                        !.retryAttempts = @ + 1]
    /\ pc' = "rc_check"
    /\ UNCHANGED <<variant, saved, exports, lastSet, nsets, gba, m, sd, trace, err>>

----------------------------------------------------------------------------
(* getBuildkitdAddr (provisioning variant) *)

PollDeadlineMs == 60000
PollIntervalMs == 200
RequestTimeoutMs == 30000

\* a slow backend request takes this many poll intervals
SlowRequestTicks == 125

RequestDurations == {0, SlowRequestTicks * PollIntervalMs}

S_task1 == <<"t", "1">>
S_task2 == <<"t", "2">>
TaskIds == {S_task1, S_task2}

S_ip1 == <<"1", "0", ".", "0", ".", "0", ".", "1">>
S_ip2 == <<"1", "0", ".", "0", ".", "0", ".", "2">>
InstanceIps == {S_ip1, S_ip2}

S_key == <<"k">>
S_clientCa == <<"c", "a">>
S_rootCa == <<"r", "c", "a">>

\* a status response's data: ec2_instance absent, or an instance with its ip
NoInstance == [ec2_instance |-> FALSE, instance_ip |-> S_empty]
StatusResponses ==
    {NoInstance} \cup {[ec2_instance |-> TRUE, instance_ip |-> ip] : ip \in InstanceIps}

GbaIdle ==
    [now |-> 0, startTime |-> 0, taskId |-> S_empty, creates |-> 0, queries |-> 0,
     lastQueryStart |-> 0, resp |-> NoInstance, firstInstanceAt |-> 0,
     abandons |-> 0, abandonId |-> S_empty, abandonAtQueries |-> 0,
     abandonOk |-> TRUE, result |-> S_empty, aborted |-> FALSE]

BuildkitdAddrNoPort(instance_ip) == <<"t", "c", "p", ":", "/", "/">> \o instance_ip

\* `tcp://${ec2Instance['instance_ip']}:4242`
BuildkitdAddr(instance_ip) ==
    <<"t", "c", "p", ":", "/", "/">> \o instance_ip \o <<":", "4", "2", "4", "2">>

DeadlineOpenLe(now, startTime) == now - startTime <= PollDeadlineMs

\* `while (Date.now() - startTime < 60000)`
DeadlineOpen(now, startTime) == now - startTime < PollDeadlineMs

SaveTaskIdOnly(st, id) == setBlacksmithBuildTaskId(st, id)

\* the four saves of the creation response's data, made before startTime is
\* taken
SaveTaskData(st, id) ==
    setBlacksmithRootCaCertificate(
      setBlacksmithClientCaCertificate(
        setBlacksmithClientKey(setBlacksmithBuildTaskId(st, id), S_key),
        S_clientCa),
      S_rootCa)

\* `client.post('')`, then the four saves and `startTime = Date.now()`; a
\* rejected request leaves through the finally
GbaCreate ==
    /\ pc = "gba_create"
    /\ \E d \in RequestDurations, ok \in BOOLEAN, id \in TaskIds :
         IF ok
           THEN /\ saved' = SaveTaskData(saved, id)
                /\ gba' = [gba EXCEPT !.now = @ + d, !.startTime = gba.now + d,
                                      !.taskId = id, !.creates = @ + 1]
                /\ pc' = "gba_loop"
                /\ err' = err
           ELSE /\ gba' = [gba EXCEPT !.now = @ + d, !.creates = @ + 1]
                /\ pc' = "gba_thrown"
                /\ err' = "CreateFailed"
                /\ saved' = saved
    /\ UNCHANGED <<variant, exports, lastSet, nsets, rc, m, sd, trace>>

\* the loop condition
GbaLoop ==
    /\ pc = "gba_loop"
    /\ pc' = IF DeadlineOpen(gba.now, gba.startTime) THEN "gba_query" ELSE "gba_abandon"
    /\ UNCHANGED <<variant, saved, exports, lastSet, nsets, rc, gba, m, sd, trace, err>>

\* `client.get(`/${taskId}`)` and the test of its ec2_instance
GbaQuery ==
    /\ pc = "gba_query"
    /\ \E d \in RequestDurations, ok \in BOOLEAN, data \in StatusResponses :
         LET g == [gba EXCEPT !.queries = @ + 1, !.lastQueryStart = gba.now,
                              !.now = @ + d]
         IN IF ~ok
              THEN /\ gba' = g
                   /\ pc' = "gba_thrown"
                   /\ err' = "StatusFailed"
              ELSE IF data.ec2_instance
                THEN /\ gba' = [g EXCEPT !.resp = data, !.firstInstanceAt = g.queries,
                                         !.result = BuildkitdAddr(data.instance_ip)]
                     /\ pc' = "gba_returned"
                     /\ err' = err
                ELSE /\ gba' = [g EXCEPT !.resp = data]
                     /\ pc' = "gba_sleep"
                     /\ err' = err
    /\ UNCHANGED <<variant, saved, exports, lastSet, nsets, rc, m, sd, trace>>

\* `await new Promise(resolve => setTimeout(resolve, 200))`
GbaSleep ==
    /\ pc = "gba_sleep"
    /\ gba' = [gba EXCEPT !.now = @ + PollIntervalMs]
    /\ pc' = "gba_loop"
    /\ UNCHANGED <<variant, saved, exports, lastSet, nsets, rc, m, sd, trace, err>>

\* the error getBuildkitdAddr ends with after the abandon request: the
\* request is awaited outside any try/catch, so its rejection is what leaves
\* the function; otherwise the `throw new Error('Failed to get EC2 instance
\* within 60 seconds')` is reached
AbandonError(ok) == IF ok THEN "ProvisionTimeout" ELSE "AbandonFailed"

\* `client.post(`/${stateHelper.blacksmithBuildTaskId}/abandon`)` and the throw
GbaAbandon ==
    /\ pc = "gba_abandon"
    /\ \E d \in RequestDurations, ok \in BOOLEAN :
         /\ gba' = [gba EXCEPT !.now = @ + d, !.abandons = @ + 1,
                               !.abandonId = exports["blacksmithBuildTaskId"],
                               !.abandonAtQueries = gba.queries,
                               !.abandonOk = ok]
         /\ err' = AbandonError(ok)
    /\ pc' = "gba_thrown"
    /\ UNCHANGED <<variant, saved, exports, lastSet, nsets, rc, m, sd, trace>>

GbaRunning ==
    pc \in {"gba_create", "gba_loop", "gba_query", "gba_sleep", "gba_abandon", "gba_hung"}

\* a backend request that never responds: the requests are made without a
\* timeout and without the controller's signal, so the await never resumes
GbaRequestHangs ==
    /\ pc \in {"gba_create", "gba_query", "gba_abandon"}
    /\ gba' = CASE pc = "gba_create" -> [gba EXCEPT !.creates = @ + 1]
                [] pc = "gba_query" ->
                     [gba EXCEPT !.queries = @ + 1, !.lastQueryStart = gba.now]
                [] OTHER ->
                     [gba EXCEPT !.abandons = @ + 1,
                                 !.abandonId = exports["blacksmithBuildTaskId"],
                                 !.abandonAtQueries = gba.queries]
    /\ pc' = "gba_hung"
    /\ UNCHANGED <<variant, saved, exports, lastSet, nsets, rc, m, sd, trace, err>>

\* what `controller.abort()` does to the position of getBuildkitdAddr: the
\* signal is passed to no request, so nothing is waiting on it
PcAfterAbort(p) == p

\* `setTimeout(() => controller.abort(), 30000)`, set on entry and cleared in
\* the finally: it fires once 30000 ms have passed while the function runs
\* (while a request hangs, time passes without bound)
GbaTimerFires ==
    /\ GbaRunning
    /\ ~gba.aborted
    /\ pc = "gba_hung" \/ gba.now >= RequestTimeoutMs
    /\ gba' = [gba EXCEPT !.aborted = TRUE,
                          !.now = IF @ < RequestTimeoutMs THEN RequestTimeoutMs ELSE @]
    /\ pc' = PcAfterAbort(pc)
    /\ UNCHANGED <<variant, saved, exports, lastSet, nsets, rc, m, sd, trace, err>>

----------------------------------------------------------------------------
(* main: initialization *)

S_builder == <<"b", "0">>
S_certs == <<"/", "c">>
S_container == <<"c", "0">>

MIdle == [isStickyDisksEnabled |-> FALSE, standalone |-> FALSE, stickyDiskIsLoaded |-> S_empty]

SdInit ==
    [daemon |-> "Absent", mounted |-> FALSE, mountAttempted |-> FALSE,
     mountSucceeded |-> FALSE, shutdowns |-> 0, umounts |-> 0,
     daemonAtUmount |-> "none", markerWritten |-> FALSE, mainFailed |-> FALSE,
     configError |-> FALSE, existsResult |-> "none"]

Ev(cmd, arg, ok) == [cmd |-> cmd, arg |-> arg, ok |-> ok]

\* provisioning variant: `const buildkitdAddr = await getBuildkitdAddr()`
MainProvStart ==
    /\ pc = "m_start"
    /\ variant = "prov"
    /\ gba' = GbaIdle
    /\ pc' = "gba_create"
    /\ UNCHANGED <<variant, saved, exports, lastSet, nsets, rc, m, sd, trace, err>>

\* getBuildkitdAddr has returned or thrown; its error is main's error
MainProvAddr ==
    /\ pc \in {"gba_returned", "gba_thrown"}
    /\ gba' = GbaIdle
    /\ IF pc = "gba_returned"
         THEN /\ pc' = "m_inputs"
              /\ sd' = sd
         ELSE /\ pc' = "main_failed"
              /\ sd' = [sd EXCEPT !.mainFailed = TRUE]
    /\ UNCHANGED <<variant, saved, exports, lastSet, nsets, rc, m, trace, err>>

\* sticky-disk variant: sendLoadStickyDisksRequest() inside the first try;
\* with VSOCK_PORT unset getEnvVar throws and the catch of that try takes it
MainLoadStickyDisks ==
    /\ pc = "m_start"
    /\ variant = "sticky"
    /\ \E vsockPort \in BOOLEAN :
         /\ IF vsockPort
              THEN /\ trace' = Append(trace, Ev("socat", S_empty, TRUE))
                   /\ rc' = RcInit(1)
                   /\ pc' = "rc_check"
              ELSE /\ trace' = Append(trace, Ev("warning", S_empty, TRUE))
                   /\ rc' = rc
                   /\ pc' = "m_probe"
         /\ sd' = [sd EXCEPT !.configError = ~vsockPort]
    /\ UNCHANGED <<variant, saved, exports, lastSet, nsets, gba, m, err>>

\* retryCommand has returned or thrown: `if (stickyDiskIsLoaded == "true")`,
\* or the catch of the first try
MainMetadata ==
    /\ pc \in {"rc_returned", "rc_thrown"}
    /\ IF pc = "rc_returned"
         THEN /\ m' = [m EXCEPT !.isStickyDisksEnabled = (rc.result = S_true),
                                  !.stickyDiskIsLoaded = rc.result]
              /\ trace' = trace
         ELSE /\ m' = m
              /\ trace' = Append(trace, Ev("warning", S_empty, TRUE))
    /\ rc' = RcIdle
    /\ err' = "none"
    /\ pc' = "m_probe"
    /\ UNCHANGED <<variant, saved, exports, lastSet, nsets, gba, sd>>

StickySetupGuardProbeOnly(isStickyDisksEnabled, blockDeviceIsPresent) ==
    blockDeviceIsPresent

\* `if (isStickyDisksEnabled && blockDeviceIsPresent)`
StickySetupGuard(isStickyDisksEnabled, blockDeviceIsPresent) ==
    isStickyDisksEnabled /\ blockDeviceIsPresent

\* checkBlockDevice(device), then the guard of the sticky-disk set-up and the
\* save of the flag
MainProbe ==
    /\ pc = "m_probe"
    /\ \E blockDeviceIsPresent \in BOOLEAN :
         /\ trace' = Append(trace, Ev("lsblk", S_empty, blockDeviceIsPresent))
         /\ IF StickySetupGuard(m.isStickyDisksEnabled, blockDeviceIsPresent)
              THEN /\ saved' = setStickyDisksEnabled(saved, S_true)
                   /\ pc' = "m_mkdir"
              ELSE /\ saved' = saved
                   /\ pc' = "m_daemon"
    /\ UNCHANGED <<variant, exports, lastSet, nsets, rc, gba, m, sd, err>>

\* `sudo mkdir -p ${mountPoint}`; a failure is caught by the second try
MainMkdir ==
    /\ pc = "m_mkdir"
    /\ \E ok \in BOOLEAN :
         /\ trace' = Append(trace, Ev("mkdir", S_empty, ok))
         /\ pc' = IF ok THEN "m_mount" ELSE "m_daemon"
    /\ UNCHANGED <<variant, saved, exports, lastSet, nsets, rc, gba, m, sd, err>>

MainMountFatal ==
    /\ pc = "m_mount"
    /\ \E ok \in BOOLEAN :
         /\ trace' = Append(trace, Ev("mount", S_empty, ok))
         /\ sd' = [sd EXCEPT !.mountAttempted = TRUE, !.mounted = ok,
                             !.mountSucceeded = ok, !.mainFailed = ~ok]
         /\ pc' = IF ok THEN "m_daemon" ELSE "main_failed"
         /\ err' = IF ok THEN err ELSE "ExecFailed"
    /\ UNCHANGED <<variant, saved, exports, lastSet, nsets, rc, gba, m>>

\* `sudo mount ${device} ${mountPoint}`; a failure is caught by the second try
MainMount ==
    /\ pc = "m_mount"
    /\ \E ok \in BOOLEAN :
         /\ trace' = Append(trace, Ev("mount", S_empty, ok))
         /\ sd' = [sd EXCEPT !.mountAttempted = TRUE, !.mounted = ok,
                             !.mountSucceeded = ok]
    /\ pc' = "m_daemon"
    /\ UNCHANGED <<variant, saved, exports, lastSet, nsets, rc, gba, m, err>>

\* findPort, installBuildkitd, startBuildkitd: any failure ends main; the
\* daemon may already run when startBuildkitd fails after launching it
MainStartDaemon ==
    /\ pc = "m_daemon"
    /\ \E ok \in BOOLEAN, launched \in BOOLEAN :
         /\ ok => launched
         /\ sd' = [sd EXCEPT !.daemon = IF launched THEN "Running" ELSE "Absent",
                             !.mainFailed = ~ok]
         /\ pc' = IF ok THEN "m_inputs" ELSE "main_failed"
         /\ err' = IF ok THEN err ELSE "StartFailed"
    /\ UNCHANGED <<variant, saved, exports, lastSet, nsets, rc, gba, m, trace>>

\* context.getInputs, setCleanup(inputs.cleanup), isStandalone, setStandalone
MainInputs ==
    /\ pc = "m_inputs"
    /\ \E cleanup \in BOOLEAN, standalone \in BOOLEAN :
         /\ saved' = setStandalone(setCleanup(saved, cleanup), standalone)
         /\ m' = [m EXCEPT !.standalone = standalone]
    /\ pc' = "m_install"
    /\ UNCHANGED <<variant, exports, lastSet, nsets, rc, gba, sd, trace, err>>

\* buildx build/download/install and version (may throw), then
\* setBuilderName, setBuilderDriver (always the supported driver), setCertsDir
MainRecordBuilder ==
    /\ pc = "m_install"
    /\ \E ok \in BOOLEAN :
         IF ok
           THEN /\ saved' = setCertsDir(
                              setBuilderDriver(setBuilderName(saved, S_builder), S_remote),
                              S_certs)
                /\ pc' = "m_create"
                /\ UNCHANGED <<sd, err>>
           ELSE /\ saved' = saved
                /\ pc' = "main_failed"
                /\ sd' = [sd EXCEPT !.mainFailed = TRUE]
                /\ err' = "InstallFailed"
    /\ UNCHANGED <<variant, exports, lastSet, nsets, rc, gba, m, trace>>

\* create, boot and inspect the builder (each may throw), then
\* setContainerName for a docker-container builder outside standalone mode and
\* setDebug('true') in debug mode
MainInspect ==
    /\ pc = "m_create"
    /\ \E ok \in BOOLEAN, driver \in {S_remote, S_dockerContainer}, debug \in BOOLEAN :
         IF ok
           THEN /\ saved' =
                     LET s1 == IF ~m.standalone /\ driver = S_dockerContainer
                                 THEN setContainerName(saved, S_container)
                                 ELSE saved
                     IN IF debug THEN setDebug(s1, S_true) ELSE s1
                /\ pc' = "main_done"
                /\ UNCHANGED <<sd, err>>
           ELSE /\ saved' = saved
                /\ pc' = "main_failed"
                /\ sd' = [sd EXCEPT !.mainFailed = TRUE]
                /\ err' = "BuilderFailed"
    /\ UNCHANGED <<variant, exports, lastSet, nsets, rc, gba, m, trace>>

----------------------------------------------------------------------------
(* post: finalization, in a fresh process *)

\* The runner starts post after main has ended, whether main succeeded or
\* not; state-helper is loaded again, from the STATE_* variables the runner
\* made of the saved state.
StartPost ==
    /\ pc \in {"main_done", "main_failed"}
    /\ exports' = LoadStateHelper(variant, saved)
    /\ trace' = <<>>
    /\ err' = "none"
    /\ m' = MIdle
    /\ pc' = "p_logs"
    /\ UNCHANGED <<variant, saved, lastSet, nsets, rc, gba, sd>>

Issued(cmd) == \E i \in DOMAIN trace : trace[i].cmd = cmd

\* position of the first event of a command in the trace, 0 when absent
FirstAt(cmd) ==
    IF Issued(cmd)
      THEN CHOOSE i \in DOMAIN trace :
             /\ trace[i].cmd = cmd
             /\ \A j \in DOMAIN trace : trace[j].cmd = cmd => i <= j
      ELSE 0

\* what an Exec.getExecOutput with ignoreReturnCode can do: succeed, end with
\* a non-zero exit code and stderr (a warning), or reject (the command could
\* not be run)
ExecOutcomes == {"ok", "warn", "throw"}

AfterLogs(v) == IF v = "prov" THEN "p_report" ELSE "p_cleanup"

\* `if (stateHelper.IsDebug && stateHelper.containerName.length > 0)`
LogsGuard(x) == x["isDebug"] /\ Len(x["containerName"]) > 0

\* step 1: the BuildKit container logs
PostLogs ==
    /\ pc = "p_logs"
    /\ IF LogsGuard(exports)
         THEN \E out \in ExecOutcomes :
                /\ trace' = Append(trace, Ev("logs", exports["containerName"], out # "throw"))
                /\ pc' = IF out = "throw" THEN "post_failed" ELSE AfterLogs(variant)
                /\ err' = IF out = "throw" THEN "ExecFailed" ELSE err
         ELSE /\ pc' = AfterLogs(variant)
              /\ UNCHANGED <<trace, err>>
    /\ UNCHANGED <<variant, saved, exports, lastSet, nsets, rc, gba, m, sd>>

\* `if (stateHelper.builderDriver === 'remote' && stateHelper.builderName.length > 0)`
ReportGuard(x) == x["builderDriver"] = S_remote /\ Len(x["builderName"]) > 0

\* step 2 (provisioning variant): reportBuildCompleted, which logs a warning
\* and rethrows when the request fails
PostReport ==
    /\ pc = "p_report"
    /\ IF ReportGuard(exports)
         THEN \E ok \in BOOLEAN :
                /\ trace' = Append(trace,
                                   Ev("complete", exports["blacksmithBuildTaskId"], ok))
                /\ pc' = IF ok THEN "p_cleanup" ELSE "post_failed"
                /\ err' = IF ok THEN err ELSE "CompleteFailed"
         ELSE /\ pc' = "p_cleanup"
              /\ UNCHANGED <<trace, err>>
    /\ UNCHANGED <<variant, saved, exports, lastSet, nsets, rc, gba, m, sd>>

CleanupSkippedNever(x) == FALSE

\* `if (!stateHelper.cleanup) { return; }`
CleanupSkipped(x) == ~x["cleanup"]

PostCleanupSavesState ==
    /\ pc = "p_cleanup"
    /\ pc' = IF CleanupSkipped(exports) THEN "post_done" ELSE "p_remove"
    /\ saved' = setCleanup(saved, FALSE)
    /\ UNCHANGED <<variant, exports, lastSet, nsets, rc, gba, m, sd, trace, err>>

\* step 3
PostCleanup ==
    /\ pc = "p_cleanup"
    /\ pc' = IF CleanupSkipped(exports) THEN "post_done" ELSE "p_remove"
    /\ UNCHANGED <<variant, saved, exports, lastSet, nsets, rc, gba, m, sd, trace, err>>

RemoveGuardNoName(x) == x["builderDriver"] # S_docker

\* `if (stateHelper.builderDriver != 'docker' && stateHelper.builderName.length > 0)`
RemoveGuard(x) == x["builderDriver"] # S_docker /\ Len(x["builderName"]) > 0

\* step 4 begins: `await builder.exists(stateHelper.builderName)`
PostExists ==
    /\ pc = "p_remove"
    /\ IF RemoveGuard(exports)
         THEN \E r \in {"yes", "no", "throw"} :
                /\ trace' = Append(trace, Ev("exists", exports["builderName"], r # "throw"))
                /\ sd' = [sd EXCEPT !.existsResult = r]
                /\ pc' = CASE r = "yes" -> "p_stop"
                           [] r = "no" -> "p_certs"
                           [] OTHER -> "post_failed"
                /\ err' = IF r = "throw" THEN "ExecFailed" ELSE err
         ELSE /\ pc' = "p_certs"
              /\ UNCHANGED <<trace, err, sd>>
    /\ UNCHANGED <<variant, saved, exports, lastSet, nsets, rc, gba, m>>

StickyGuardNever(v, x) == FALSE

\* `if (stateHelper.isStickyDisksEnabled)`, which only the sticky-disk
\* variant's post has
StickyGuard(v, x) == v = "sticky" /\ x["isStickyDisksEnabled"]

StickyFirstStepUmount == "p_umount"

\* the first statement of the guarded sticky-disk sequence:
\* `await shutdownBuildkitd()`
StickyFirstStep == "p_shutdown"

\* the buildx stop command
PostStop ==
    /\ pc = "p_stop"
    /\ \E out \in {"ok", "throw"} :
         /\ trace' = Append(trace, Ev("stop", exports["builderName"], out = "ok"))
         /\ pc' = IF out = "throw" THEN "post_failed"
                  ELSE IF StickyGuard(variant, exports) THEN StickyFirstStep
                  ELSE "p_rm"
         /\ err' = IF out = "throw" THEN "ExecFailed" ELSE err
    /\ UNCHANGED <<variant, saved, exports, lastSet, nsets, rc, gba, m, sd>>

\* the daemon after a successful `pkill -TERM buildkitd`: the signal has been
\* delivered, and pkill does not wait for the process to exit
DaemonAfterTerm(daemon) == "Terminating"

PostShutdownUncaught ==
    /\ pc = "p_shutdown"
    /\ \E ok \in BOOLEAN :
         /\ ok => sd.daemon \in {"Running", "Terminating"}
         /\ trace' = Append(trace, Ev("shutdown", S_empty, ok))
         /\ sd' = [sd EXCEPT !.shutdowns = @ + 1,
                             !.daemon = IF ok THEN DaemonAfterTerm(sd.daemon) ELSE @]
         /\ pc' = IF ok THEN "p_umount" ELSE "post_failed"
         /\ err' = IF ok THEN err ELSE "ExecFailed"
    /\ UNCHANGED <<variant, saved, exports, lastSet, nsets, rc, gba, m>>

\* shutdownBuildkitd: `sudo pkill -TERM buildkitd`; pkill fails when no
\* buildkitd process exists; a failure is rethrown to the catch around the
\* sticky-disk sequence
PostShutdown ==
    /\ pc = "p_shutdown"
    /\ \E ok \in BOOLEAN :
         /\ ok => sd.daemon \in {"Running", "Terminating"}
         /\ trace' = Append(trace, Ev("shutdown", S_empty, ok))
         /\ sd' = [sd EXCEPT !.shutdowns = @ + 1,
                             !.daemon = IF ok THEN DaemonAfterTerm(sd.daemon) ELSE @]
         /\ pc' = IF ok THEN "p_umount" ELSE "p_rm"
    /\ UNCHANGED <<variant, saved, exports, lastSet, nsets, rc, gba, m, err>>

PostUmountFailureIgnored ==
    /\ pc = "p_umount"
    /\ \E ok \in BOOLEAN :
         /\ ok => sd.mounted
         /\ trace' = Append(trace, Ev("umount", S_empty, ok))
         /\ sd' = [sd EXCEPT !.umounts = @ + 1, !.daemonAtUmount = sd.daemon,
                             !.mounted = IF ok THEN FALSE ELSE @]
         /\ pc' = "p_marker_dir"
    /\ UNCHANGED <<variant, saved, exports, lastSet, nsets, rc, gba, m, err>>

\* `sudo umount ${mountPoint}`; it can succeed only on a mounted mount point
PostUmount ==
    /\ pc = "p_umount"
    /\ \E ok \in BOOLEAN :
         /\ ok => sd.mounted
         /\ trace' = Append(trace, Ev("umount", S_empty, ok))
         /\ sd' = [sd EXCEPT !.umounts = @ + 1, !.daemonAtUmount = sd.daemon,
                             !.mounted = IF ok THEN FALSE ELSE @]
         /\ pc' = IF ok THEN "p_marker_dir" ELSE "p_rm"
    /\ UNCHANGED <<variant, saved, exports, lastSet, nsets, rc, gba, m, err>>

\* `sudo mkdir -p /stickydisk`
PostMarkerDir ==
    /\ pc = "p_marker_dir"
    /\ \E ok \in BOOLEAN :
         /\ trace' = Append(trace, Ev("marker_dir", S_empty, ok))
         /\ pc' = IF ok THEN "p_marker" ELSE "p_rm"
    /\ UNCHANGED <<variant, saved, exports, lastSet, nsets, rc, gba, m, sd, err>>

\* `sudo touch /stickydisk/commit.txt`
PostMarker ==
    /\ pc = "p_marker"
    /\ \E ok \in BOOLEAN :
         /\ trace' = Append(trace, Ev("marker", S_empty, ok))
         /\ sd' = [sd EXCEPT !.markerWritten = ok]
    /\ pc' = "p_rm"
    /\ UNCHANGED <<variant, saved, exports, lastSet, nsets, rc, gba, m, err>>

\* the buildx rm command
PostRm ==
    /\ pc = "p_rm"
    /\ \E out \in ExecOutcomes :
         /\ trace' = Append(trace, Ev("rm", exports["builderName"], out # "throw"))
         /\ pc' = IF out = "throw" THEN "post_failed" ELSE "p_certs"
         /\ err' = IF out = "throw" THEN "ExecFailed" ELSE err
    /\ UNCHANGED <<variant, saved, exports, lastSet, nsets, rc, gba, m, sd>>

\* step 5: `if (stateHelper.certsDir.length > 0 && fs.existsSync(...))`, then
\* fs.rmSync
PostCerts ==
    /\ pc = "p_certs"
    /\ \E exists \in BOOLEAN, ok \in BOOLEAN :
         IF Len(exports["certsDir"]) > 0 /\ exists
           THEN /\ trace' = Append(trace, Ev("rm_certs", exports["certsDir"], ok))
                /\ pc' = IF ok THEN "post_done" ELSE "post_failed"
                /\ err' = IF ok THEN err ELSE "RmFailed"
           ELSE /\ pc' = "post_done"
                /\ UNCHANGED <<trace, err>>
    /\ UNCHANGED <<variant, saved, exports, lastSet, nsets, rc, gba, m, sd>>

\* the build daemon, once signalled, exits in its own time
DaemonExit ==
    /\ sd.daemon = "Terminating"
    /\ sd' = [sd EXCEPT !.daemon = "Exited"]
    /\ UNCHANGED <<variant, pc, saved, exports, lastSet, nsets, rc, gba, m, trace, err>>

----------------------------------------------------------------------------
(* Specifications *)

NoLastSet == [k \in StateKeys |-> [kind |-> "none", s |-> S_empty, b |-> FALSE]]

\* one job: main, then post
Init ==
    /\ variant \in {"prov", "sticky"}
    /\ pc = "m_start"
    /\ saved = NoState
    /\ exports = LoadStateHelper(variant, NoState)
    /\ lastSet = NoLastSet
    /\ nsets = 0
    /\ rc = RcIdle
    /\ gba = GbaIdle
    /\ m = MIdle
    /\ sd = SdInit
    /\ trace = <<>>
    /\ err = "none"

Next ==
    \/ MainProvStart
    \/ GbaCreate
    \/ GbaLoop
    \/ GbaQuery
    \/ GbaSleep
    \/ GbaAbandon
    \/ GbaRequestHangs
    \/ GbaTimerFires
    \/ MainProvAddr
    \/ MainLoadStickyDisks
    \/ RetryCheck
    \/ RetryCall
    \/ RetrySleep
    \/ MainMetadata
    \/ MainProbe
    \/ MainMkdir
    \/ MainMount
    \/ MainStartDaemon
    \/ MainInputs
    \/ MainRecordBuilder
    \/ MainInspect
    \/ StartPost
    \/ PostLogs
    \/ PostReport
    \/ PostCleanup
    \/ PostExists
    \/ PostStop
    \/ PostShutdown
    \/ PostUmount
    \/ PostMarkerDir
    \/ PostMarker
    \/ PostRm
    \/ PostCerts
    \/ DaemonExit

Spec == Init /\ [][Next]_vars

\* retryCommand alone, with any sleepTime
InitRetry ==
    /\ variant \in {"prov", "sticky"}
    /\ pc = "rc_check"
    /\ saved = NoState
    /\ exports = LoadStateHelper(variant, NoState)
    /\ lastSet = NoLastSet
    /\ nsets = 0
    /\ rc \in {RcInit(t) : t \in 1..MaxSleepTime}
    /\ gba = GbaIdle
    /\ m = MIdle
    /\ sd = SdInit
    /\ trace = <<>>
    /\ err = "none"

NextRetry ==
    \/ RetryCheck
    \/ RetryCall
    \/ RetrySleep

SpecRetry == InitRetry /\ [][NextRetry]_vars

\* the state-helper alone: some setter calls in the initialization phase,
\* then the load of the module in the finalization process
MaxSets == 2

StringValues == {S_empty, S_false, S_true, S_TRUE, S_x}

BoolKeys == {"standalone", "cleanup"}

\* the setter of a string-typed parameter, by the key it saves
ApplyStringSetter(st, k, v) ==
    CASE k = "isDebug" -> setDebug(st, v)
      [] k = "builderName" -> setBuilderName(st, v)
      [] k = "builderDriver" -> setBuilderDriver(st, v)
      [] k = "containerName" -> setContainerName(st, v)
      [] k = "certsDir" -> setCertsDir(st, v)
      [] k = "isStickyDisksEnabled" -> setStickyDisksEnabled(st, v)
      [] k = "blacksmithBuildTaskId" -> setBlacksmithBuildTaskId(st, v)
      [] k = "blacksmithClientKey" -> setBlacksmithClientKey(st, v)
      [] k = "blacksmithClientCaCertificate" -> setBlacksmithClientCaCertificate(st, v)
      [] k = "blacksmithRootCaCertificate" -> setBlacksmithRootCaCertificate(st, v)
      [] k = "blacksmithBuilderId" -> setBlacksmithBuilderId(st, v)

\* the setter of a boolean-typed parameter, by the key it saves
ApplyBoolSetter(st, k, b) ==
    CASE k = "standalone" -> setStandalone(st, b)
      [] k = "cleanup" -> setCleanup(st, b)

StSetString ==
    /\ pc = "st_init"
    /\ nsets < MaxSets
    /\ \E k \in KeysOf(variant) \ BoolKeys, v \in StringValues :
         /\ saved' = ApplyStringSetter(saved, k, v)
         /\ lastSet' = [lastSet EXCEPT ![k] = [kind |-> "str", s |-> v, b |-> FALSE]]
    /\ nsets' = nsets + 1
    /\ UNCHANGED <<variant, pc, exports, rc, gba, m, sd, trace, err>>

StSetBool ==
    /\ pc = "st_init"
    /\ nsets < MaxSets
    /\ \E k \in BoolKeys, b \in BOOLEAN :
         /\ saved' = ApplyBoolSetter(saved, k, b)
         /\ lastSet' = [lastSet EXCEPT ![k] = [kind |-> "bool", s |-> S_empty, b |-> b]]
    /\ nsets' = nsets + 1
    /\ UNCHANGED <<variant, pc, exports, rc, gba, m, sd, trace, err>>

StFinalize ==
    /\ pc = "st_init"
    /\ exports' = LoadStateHelper(variant, saved)
    /\ pc' = "st_post"
    /\ UNCHANGED <<variant, saved, lastSet, nsets, rc, gba, m, sd, trace, err>>

InitState ==
    /\ variant \in {"prov", "sticky"}
    /\ pc = "st_init"
    /\ saved = NoState
    /\ exports = LoadStateHelper(variant, NoState)
    /\ lastSet = NoLastSet
    /\ nsets = 0
    /\ rc = RcIdle
    /\ gba = GbaIdle
    /\ m = MIdle
    /\ sd = SdInit
    /\ trace = <<>>
    /\ err = "none"

NextState ==
    \/ StSetString
    \/ StSetBool
    \/ StFinalize

SpecState == InitState /\ [][NextState]_vars

----------------------------------------------------------------------------
(* Claims *)

\* C1: retryCommand with a command that fails on every call (throws, returns
\* the empty string, or returns a string holding the not-found sentinel) calls
\* it exactly 11 times and then fails with the retries-exceeded error: a call
\* is made only while fewer than 11 were made, and the error is raised only
\* after 11 calls, all of them failed.
C1_ExactlyElevenAttempts ==
    /\ rc.invocations <= 11
    /\ pc = "rc_call" => rc.invocations < 11
    /\ pc = "rc_thrown" =>
         /\ rc.invocations = 11
         /\ rc.allFailed
         /\ err = "MaxRetriesExceeded"
    /\ pc = "rc_returned" => ~rc.allFailed

C1_Witness ==
    /\ pc = "rc_thrown"
    /\ rc.invocations = 11
    /\ rc.allFailed

\* C2: when the k-th status query is the first whose response holds an
\* ec2_instance (the query having started before the 60000 ms deadline),
\* getBuildkitdAddr returns tcp://<instance_ip>:4242 right after that query,
\* having made exactly k status queries and no abandon request.
C2_ReturnsAddrAtFirstInstance ==
    /\ gba.resp.ec2_instance => pc = "gba_returned"
    /\ pc = "gba_returned" =>
         /\ gba.resp.ec2_instance
         /\ gba.firstInstanceAt = gba.queries
         /\ gba.lastQueryStart - gba.startTime < 60000
         /\ gba.result = <<"t", "c", "p", ":", "/", "/">> \o gba.resp.instance_ip
                           \o <<":", "4", "2", "4", "2">>
         /\ gba.abandons = 0
         /\ err = "none"

C2_Witness ==
    /\ pc = "gba_returned"
    /\ gba.queries = 3
    /\ gba.resp.instance_ip = S_ip2

\* C3: against a backend that answers every status query and never reports
\* an instance, getBuildkitdAddr fails with the provision-timeout error once
\* 60000 ms have elapsed, after exactly one abandon request, issued after the
\* last status query.
C3_TimeoutAfterOneAbandon ==
    (pc = "gba_thrown" /\ err \notin {"CreateFailed", "StatusFailed"}) =>
        /\ err = "ProvisionTimeout"
        /\ gba.abandons = 1
        /\ gba.abandonAtQueries = gba.queries
        /\ gba.now - gba.startTime >= 60000

\* C4: when the deadline has expired and the abandon request fails,
\* getBuildkitdAddr still fails with the provision-timeout error, not with
\* the abandon request's error.
C4_AbandonFailureNonFatal ==
    (pc = "gba_thrown" /\ gba.abandons = 1 /\ ~gba.abandonOk) =>
        err = "ProvisionTimeout"

\* C5: whatever value a setter was last called with in the initialization
\* phase is the value the finalization process exports for that key: the
\* string itself for the string keys, the boolean for standalone and cleanup,
\* and for isDebug and isStickyDisksEnabled the truth value the string
\* denotes ('true' true; 'false' and the empty string false).
C5_StateRoundTrip ==
    pc = "st_post" =>
        \A k \in KeysOf(variant) :
            /\ lastSet[k].kind = "bool" => exports[k] = lastSet[k].b
            /\ (lastSet[k].kind = "str" /\ k \in {"isDebug", "isStickyDisksEnabled"}) =>
                 /\ lastSet[k].s = S_true => exports[k] = TRUE
                 /\ lastSet[k].s \in {S_false, S_empty} => exports[k] = FALSE
            /\ (lastSet[k].kind = "str" /\ k \notin {"isDebug", "isStickyDisksEnabled"}) =>
                 exports[k] = lastSet[k].s

PostEnded == pc \in {"post_done", "post_failed"}

PostPcs ==
    {"p_logs", "p_report", "p_cleanup", "p_remove", "p_stop", "p_shutdown", "p_umount",
     "p_marker_dir", "p_marker", "p_rm", "p_certs", "post_done", "post_failed"}

Count(cmd) == Cardinality({i \in DOMAIN trace : trace[i].cmd = cmd})

\* C6: a finalization whose recorded cleanup flag is false issues none of
\* the commands of steps 4 and 5 (builder check, stop, shutdown, unmount,
\* marker, remove, certificate deletion), and has captured the logs exactly
\* when debug and a container name were recorded and reported completion
\* exactly when the remote driver and a builder name were recorded.
C6_CleanupFalseSkipsRemoval ==
    (PostEnded /\ ~exports["cleanup"]) =>
        /\ \A c \in {"exists", "stop", "shutdown", "umount", "marker_dir", "marker",
                     "rm", "rm_certs"} : ~Issued(c)
        /\ Issued("logs") <=> (exports["isDebug"] /\ Len(exports["containerName"]) > 0)
        /\ variant = "prov" =>
             (Issued("complete") <=>
                (exports["builderDriver"] = S_remote /\ Len(exports["builderName"]) > 0))

\* C7: in a sticky-disk finalization with sticky disks recorded, the remove
\* request is issued only after the shutdown, and after the unmount and the
\* marker write that followed it: each at most once, in the order shutdown,
\* unmount, marker directory, marker, remove; an unmount that succeeded is
\* followed by the marker write before the remove; and while the sequence is
\* still running no remove has been issued.
C7_StickySequenceBeforeRemove ==
    /\ (variant = "sticky" /\ pc \in {"p_shutdown", "p_umount", "p_marker_dir", "p_marker"})
          => ~Issued("rm")
    /\ (variant = "sticky" /\ pc \notin {"main_done", "main_failed"}
          /\ exports["isStickyDisksEnabled"] /\ Issued("rm")) =>
         /\ \A c \in {"shutdown", "umount", "marker_dir", "marker", "rm"} : Count(c) <= 1
         /\ Issued("shutdown") /\ FirstAt("shutdown") < FirstAt("rm")
         /\ Issued("umount") =>
              FirstAt("shutdown") < FirstAt("umount") /\ FirstAt("umount") < FirstAt("rm")
         /\ Issued("marker_dir") =>
              FirstAt("umount") < FirstAt("marker_dir") /\ FirstAt("marker_dir") < FirstAt("rm")
         /\ Issued("marker") =>
              FirstAt("marker_dir") < FirstAt("marker") /\ FirstAt("marker") < FirstAt("rm")
         /\ (Issued("umount") /\ trace[FirstAt("umount")].ok) => Issued("marker_dir")
         /\ (Issued("marker_dir") /\ trace[FirstAt("marker_dir")].ok) => Issued("marker")
         /\ FirstAt("rm") = Len(trace) \/ trace[Len(trace)].cmd = "rm_certs"

C7_Witness ==
    /\ variant = "sticky"
    /\ pc = "p_certs"
    /\ [i \in DOMAIN trace |-> trace[i].cmd] =
         <<"exists", "stop", "shutdown", "umount", "marker_dir", "marker", "rm">>
    /\ sd.markerWritten

\* C8: in every finalization, also one in which a step fails, an unmount is
\* invoked only after shutdownBuildkitd was invoked in that finalization.
C8_ShutdownBeforeUmount ==
    /\ pc = "p_umount" => Issued("shutdown")
    /\ Issued("umount") =>
         /\ Issued("shutdown")
         /\ FirstAt("shutdown") < FirstAt("umount")
    /\ sd.umounts > 0 => sd.shutdowns > 0

C8_Witness ==
    /\ Issued("umount")
    /\ ~trace[FirstAt("umount")].ok
    /\ pc = "post_failed"

\* C9: whenever the unmount command is issued, the build daemon has exited.
C9_DaemonExitedAtUmount ==
    sd.umounts > 0 => sd.daemonAtUmount = "Exited"

\* C10: finalization attempts an unmount only if the mount succeeded in
\* initialization.
C10_UmountOnlyAfterMount ==
    sd.umounts > 0 => sd.mountSucceeded

\* C11: finalization never ends with an error raised to its caller,
\* whichever of its steps fail.
C11_PostNeverFails ==
    PostEnded => (pc = "post_done" /\ err = "none")

\* C12: a finalization of the provisioning variant whose completion report
\* failed still ends without an error and, with the cleanup flag set and a
\* non-docker driver and a builder name recorded, has gone on to the builder
\* removal.
C12_ReportFailureOnlyLogged ==
    (variant = "prov" /\ PostEnded /\ Issued("complete")
       /\ ~trace[FirstAt("complete")].ok) =>
        /\ pc = "post_done"
        /\ (exports["cleanup"] /\ exports["builderDriver"] # S_docker
              /\ Len(exports["builderName"]) > 0) => Issued("exists")

\* C13: a finalization of a job whose initialization recorded a non-empty
\* task id has issued the completion report for that task id, also when
\* initialization failed after the task was created.
C13_ReportWheneverTaskCreated ==
    (variant = "prov" /\ PostEnded /\ Truthy(saved["blacksmithBuildTaskId"])) =>
        \E i \in DOMAIN trace :
            /\ trace[i].cmd = "complete"
            /\ trace[i].arg = saved["blacksmithBuildTaskId"]

\* C14: from the first status query on (the query about to be issued
\* included), and until getBuildkitdAddr has ended, the task id of the created
\* task, the client key, the client CA certificate and the root CA
\* certificate are all in the saved state.
C14_SavedBeforeFirstQuery ==
    (pc \in {"gba_query", "gba_sleep", "gba_abandon", "gba_returned"}
       \/ (pc \in {"gba_loop", "gba_thrown", "gba_hung"} /\ gba.taskId # S_empty)) =>
        /\ gba.taskId \in TaskIds
        /\ saved["blacksmithBuildTaskId"] = gba.taskId
        /\ saved["blacksmithClientKey"] = S_key
        /\ saved["blacksmithClientCaCertificate"] = S_clientCa
        /\ saved["blacksmithRootCaCertificate"] = S_rootCa

C14_Witness ==
    /\ pc = "gba_query"
    /\ gba.queries = 0
    /\ saved["blacksmithRootCaCertificate"] = S_rootCa

\* C15: a backend request that never responds is aborted by the 30000 ms
\* timer: once the timer has fired, getBuildkitdAddr is no longer waiting for
\* that request.
C15_HungRequestAborted ==
    gba.aborted => pc # "gba_hung"

\* C16: sticky-disk variant: when VSOCK_PORT is absent the configuration
\* error aborts the initialization at once: main is at none of the later
\* initialization steps, has not completed, and no daemon was started.
C16_ConfigErrorFatal ==
    sd.configError =>
        /\ pc \notin {"m_probe", "m_mkdir", "m_mount", "m_daemon", "m_inputs",
                      "m_install", "m_create", "main_done"}
        /\ sd.daemon = "Absent"

\* C17: in the process that loaded the state-helper module and then called
\* a setter, reading the key afterwards gives the last value written: the
\* string for a string key, the boolean for standalone and cleanup.
C17_SameProcessGet ==
    pc = "st_init" =>
        \A k \in KeysOf(variant) \ {"isDebug", "isStickyDisksEnabled"} :
            /\ lastSet[k].kind = "str" => exports[k] = lastSet[k].s
            /\ lastSet[k].kind = "bool" => exports[k] = lastSet[k].b

\* C18: in post, of either variant, a builder stop or remove command has been
\* issued only if the recorded builder name is non-empty and the recorded
\* driver is not 'docker'.
C18_StopRemoveOnlyForNamedRemote ==
    (pc \in PostPcs /\ (Issued("stop") \/ Issued("rm"))) =>
        /\ Len(exports["builderName"]) > 0
        /\ exports["builderDriver"] # S_docker

C18_Witness ==
    /\ PostEnded
    /\ Issued("stop")
    /\ Issued("rm")
    /\ exports["builderName"] = S_builder

\* C19: no step of post, on any path, writes a saved-state key: across every
\* step taken while post runs the saved state stays what it was when post
\* started.
C19_PostReadOnly ==
    [][(pc \in PostPcs) => (saved' = saved)]_vars

C19_Witness ==
    /\ PostEnded
    /\ Issued("rm_certs")
    /\ saved["cleanup"] = S_true
    /\ saved["certsDir"] = S_certs

\* C20: the abandon request getBuildkitdAddr issues on deadline expiry is
\* addressed to the non-empty task id the creation request of this execution
\* returned, the id the status queries used.
C20_AbandonAddressedToCreatedTask ==
    gba.abandons > 0 =>
        /\ Len(gba.abandonId) > 0
        /\ gba.abandonId = gba.taskId

\* C21: a call of the command that throws, returns the empty string or
\* returns a string holding the not-found sentinel leads to the sleep and a
\* further round; when call j (1 <= j <= 11) is the first to return a
\* non-empty string without the sentinel, retryCommand returns exactly that
\* string after exactly j calls, the j-1 earlier ones each followed by one
\* sleep, and with no sleep after call j.
C21_ReturnsFirstAcceptedResult ==
    /\ pc = "rc_sleep" =>
         \/ rc.last.threw
         \/ rc.last.value = S_empty
         \/ Includes(rc.last.value, S_notFound)
    /\ pc = "rc_returned" =>
         /\ ~rc.last.threw
         /\ rc.result = rc.last.value
         /\ Len(rc.result) > 0
         /\ ~Includes(rc.result, S_notFound)
         /\ rc.invocations \in 1..11
         /\ rc.invocations = rc.retryAttempts + 1
         /\ rc.sleeps = rc.invocations - 1

C21_Witness ==
    /\ pc = "rc_returned"
    /\ rc.invocations = 11
    /\ rc.result = S_true

\* C22: retryCommand sleeps only between two consecutive calls, once per
\* pair: when it ends, by returning or by raising the retries-exceeded
\* error, it has slept one time fewer than it called the command (10 sleeps
\* for the 11 calls of an exhausted run).
C22_SleepsOnlyBetweenAttempts ==
    pc \in {"rc_returned", "rc_thrown"} => rc.sleeps = rc.invocations - 1

\* positions of the sticky-disk variant's main after the device probe
AfterProbePcs ==
    {"m_mkdir", "m_mount", "m_daemon", "m_inputs", "m_install", "m_create",
     "main_done", "main_failed"}

\* the probe of this run reported the device present
ProbePresent == Issued("lsblk") /\ trace[FirstAt("lsblk")].ok

\* C23: sticky-disk variant's main: mkdir and mount are issued only when the
\* device probe reported the device present and the metadata value fetched
\* was exactly "true", mount only after a mkdir issued before it; when the
\* probe failed or the value is anything else (absent after the retries ran
\* out included) neither is issued and isStickyDisksEnabled is not saved.
C23_MountOnlyIfProbedAndEnabled ==
    (variant = "sticky" /\ pc \in AfterProbePcs) =>
        /\ (Issued("mkdir") \/ Issued("mount")) =>
             /\ ProbePresent
             /\ m.stickyDiskIsLoaded = S_true
        /\ Issued("mount") =>
             /\ Issued("mkdir")
             /\ FirstAt("mkdir") < FirstAt("mount")
        /\ (~ProbePresent \/ m.stickyDiskIsLoaded # S_true) =>
             /\ ~Issued("mkdir")
             /\ ~Issued("mount")
             /\ saved["isStickyDisksEnabled"] = NoState["isStickyDisksEnabled"]

C23_Witness ==
    /\ variant = "sticky"
    /\ pc = "main_done"
    /\ Issued("mount")
    /\ trace[FirstAt("mount")].ok
    /\ m.stickyDiskIsLoaded = S_true

\* C24: sticky-disk variant's post: the commit marker is written (its touch
\* command is even issued) only after, in this same post, the daemon
\* shutdown command succeeded and then the unmount command succeeded; after
\* a failed shutdown or a failed unmount no marker command is issued.
C24_MarkerOnlyAfterShutdownAndUmount ==
    (variant = "sticky" /\ pc \in PostPcs) =>
        /\ (Issued("marker_dir") \/ Issued("marker") \/ sd.markerWritten) =>
             /\ Issued("shutdown")
             /\ trace[FirstAt("shutdown")].ok
             /\ Issued("umount")
             /\ trace[FirstAt("umount")].ok
             /\ FirstAt("shutdown") < FirstAt("umount")
        /\ Issued("marker") => FirstAt("umount") < FirstAt("marker")
        /\ (\E i \in DOMAIN trace : trace[i].cmd \in {"shutdown", "umount"} /\ ~trace[i].ok) =>
             /\ ~Issued("marker")
             /\ ~sd.markerWritten

C24_Witness ==
    /\ variant = "sticky"
    /\ PostEnded
    /\ sd.markerWritten
    /\ Issued("marker")

\* a command of the guarded sticky-disk sequence of post has failed
StickyStepFailed ==
    \E i \in DOMAIN trace :
        /\ trace[i].cmd \in {"shutdown", "umount", "marker_dir", "marker"}
        /\ ~trace[i].ok

\* C25: sticky-disk variant's post: a failure of the daemon shutdown, the
\* unmount or the commit-marker write does not end post: the builder rm
\* command is still issued after it and, once that command has run, post goes
\* on to the certificate-directory step (it ends normally, or the deletion was
\* issued).
C25_StickyFailureDoesNotStopTeardown ==
    (variant = "sticky" /\ pc \in PostPcs /\ StickyStepFailed) =>
        /\ pc \in {"p_rm", "p_certs", "post_done", "post_failed"}
        /\ pc # "p_rm" => Issued("rm")
        /\ (PostEnded /\ trace[FirstAt("rm")].ok) =>
               (pc = "post_done" \/ Issued("rm_certs"))
        /\ pc = "post_failed" =>
               (~trace[FirstAt("rm")].ok \/ err = "RmFailed")

C25_Witness ==
    /\ variant = "sticky"
    /\ pc = "post_done"
    /\ StickyStepFailed
    /\ Issued("rm")
    /\ Issued("rm_certs")

\* the probe, the mount-point creation or the mount of this main has failed
StickySetupFailed ==
    \E i \in DOMAIN trace :
        /\ trace[i].cmd \in {"lsblk", "mkdir", "mount"}
        /\ ~trace[i].ok

\* C26: sticky-disk variant's main: a failed device probe counts as 'device
\* not present' (no mkdir, no mount), and after a failed probe, mkdir or
\* mount main is at the daemon start or beyond it; if main fails afterwards,
\* it is with an error of the daemon start or of a later step.
C26_StickySetupFailureNonFatal ==
    (variant = "sticky" /\ pc \in AfterProbePcs /\ StickySetupFailed) =>
        /\ pc \in {"m_daemon", "m_inputs", "m_install", "m_create", "main_done", "main_failed"}
        /\ ~ProbePresent => (~Issued("mkdir") /\ ~Issued("mount"))
        /\ (Issued("mkdir") /\ ~trace[FirstAt("mkdir")].ok) => ~Issued("mount")
        /\ pc = "main_failed" => err \in {"StartFailed", "InstallFailed", "BuilderFailed"}

C26_Witness ==
    /\ variant = "sticky"
    /\ pc = "main_done"
    /\ Issued("mount")
    /\ ~trace[FirstAt("mount")].ok
    /\ sd.daemon = "Running"

\* C27: getBuildkitdAddr starts a status query only while fewer than 60000 ms
\* have passed since polling began, and each query after the first starts at
\* least 200 ms after the one before it (the k-th no earlier than 200*(k-1) ms
\* into the polling); hence no execution makes more than 300 status queries.
C27_AtMost300Queries ==
    /\ gba.queries <= 300
    /\ pc = "gba_query" =>
         /\ gba.now - gba.startTime < 60000
         /\ gba.now - gba.startTime >= 200 * gba.queries
    /\ gba.queries > 0 =>
         /\ gba.lastQueryStart - gba.startTime < 60000
         /\ gba.lastQueryStart - gba.startTime >= 200 * (gba.queries - 1)

C27_Witness ==
    /\ pc = "gba_thrown"
    /\ gba.queries = 300
    /\ gba.abandons = 1

\* a command of the sticky-disk sequence of post has been issued
StickySequenceAttempted ==
    Issued("shutdown") \/ Issued("umount") \/ Issued("marker_dir") \/ Issued("marker")

\* C28: sticky-disk variant's post attempts the shutdown/unmount/marker
\* sequence only when the recorded cleanup flag is true, the recorded driver
\* is not 'docker', the recorded builder name is non-empty, the builder was
\* found to exist and isStickyDisksEnabled was recorded; so a post that ends
\* after a main that mounted the disk, with cleanup false or the builder
\* gone, has attempted no unmount and written no marker, and the disk is
\* still mounted.
C28_StickySequenceGuards ==
    (variant = "sticky" /\ pc \in PostPcs) =>
        /\ StickySequenceAttempted =>
             /\ exports["cleanup"]
             /\ exports["builderDriver"] # S_docker
             /\ Len(exports["builderName"]) > 0
             /\ sd.existsResult = "yes"
             /\ exports["isStickyDisksEnabled"]
        /\ (PostEnded /\ sd.mountSucceeded /\ (~exports["cleanup"] \/ sd.existsResult = "no")) =>
             /\ sd.umounts = 0
             /\ ~Issued("umount")
             /\ ~sd.markerWritten
             /\ sd.mounted

C28_Witness ==
    /\ variant = "sticky"
    /\ pc = "post_done"
    /\ sd.mountSucceeded
    /\ sd.existsResult = "no"
    /\ sd.mounted
    /\ sd.umounts = 0

====
